---- MODULE Spec2Model ----
(***************************************************************************)
(* Deck/session engine of the card game (src/src/App.jsx): CSV rows are    *)
(* parsed into info and dilemme cards, a pool is derived from the mode and *)
(* the selected categories, and cards are drawn without repetition until   *)
(* the pool is exhausted.                                                  *)
(*                                                                         *)
(* A JavaScript string is modelled as the sequence of its characters, each *)
(* character a one-letter TLA+ string. A missing column of a row is a key  *)
(* that is not in the row's domain.                                        *)
(***************************************************************************)
EXTENDS Naturals, Sequences, FiniteSets

VARIABLES
    rows,               \* results.data: the raw rows Papa.parse hands over
    fetchState,         \* "pending" | "done" | "failed": the fetchData promise
    mode,               \* useState("auto")
    cards,              \* useState({ info: [], dilemme: [] })
    allCategories,      \* useState([])
    selectedCategories, \* useState([])
    showFilters,        \* useState(false)
    card,               \* useState(null): <<>> is null, <<c>> is the card c
    showGuide,          \* useState(false)
    playedIds,          \* useState(new Set())
    hasCompleted,       \* useState(false)
    loaded,             \* useState(false)
    returned,           \* history: ids set as current since the last reset
    attempts,           \* history: pickCard calls since the last reset
    lastOp,             \* history: the last handler that wrote the session, and what it cleared
    timers,             \* pending setTimeout(pickCard, 120) callbacks, oldest first
    usedIndices,        \* index-based variant: useState([])
    index,              \* index-based variant: `let index` of pickCard, <<>> while undefined
    sampling            \* index-based variant: pickCard is inside its do/while

vars == <<rows, fetchState, mode, cards, allCategories, selectedCategories,
          showFilters, card, showGuide, playedIds, hasCompleted, loaded,
          returned, attempts, lastOp, timers, usedIndices, index, sampling>>

\* The state only the index-based variant writes
indexDraw == <<usedIndices, index, sampling>>

-----------------------------------------------------------------------------
(* Bounds *)

MaxRows == 3
MaxParseRows == 2
MaxSwipeRows == 2
MaxTimers == 1
MaxIndexRows == 2

-----------------------------------------------------------------------------
(* Strings *)

StrInfo == <<"i", "n", "f", "o">>
StrDilemme == <<"d", "i", "l", "e", "m", "m", "e">>
StrAutre == <<"A", "u", "t", "r", "e">>
StrA == <<"A">>
StrB == <<"B">>

Range(s) == {s[k] : k \in 1..Len(s)}

IsSpace(c) == c = " "

RECURSIVE TrimStart(_)
TrimStart(s) ==
    IF s # <<>> /\ IsSpace(Head(s)) THEN TrimStart(Tail(s)) ELSE s

RECURSIVE TrimEnd(_)
TrimEnd(s) ==
    IF s # <<>> /\ IsSpace(s[Len(s)])
    THEN TrimEnd(SubSeq(s, 1, Len(s) - 1))
    ELSE s

\* String.prototype.trim
Trim(s) == TrimEnd(TrimStart(s))

Digit(d) == <<"0", "1", "2", "3", "4", "5", "6", "7", "8", "9">>[d + 1]

\* Number-to-string conversion of a template literal
RECURSIVE Decimal(_)
Decimal(n) ==
    IF n < 10 THEN <<Digit(n)>> ELSE Decimal(n \div 10) \o <<Digit(n % 10)>>

-----------------------------------------------------------------------------
(* Row parser: the complete callback of Papa.parse *)

\* Mutant: the type field is compared untrimmed
TypeOfNoTrim(row) == IF "type" \in DOMAIN row THEN row["type"] ELSE <<>>

\* const type = (row.type || "").trim()
TypeOf(row) == Trim(IF "type" \in DOMAIN row THEN row["type"] ELSE <<>>)

\* Mutant: the category is trimmed but gets no default
CategoryOfNoDefault(row) ==
    IF "category" \in DOMAIN row THEN Trim(row["category"]) ELSE <<>>

\* category: row.category?.trim() || "Autre"
CategoryOf(row) ==
    LET c == IF "category" \in DOMAIN row THEN Trim(row["category"]) ELSE <<>>
    IN  IF c = <<>> THEN StrAutre ELSE c

\* Mutant: the id leaves out the row index
MakeIdNoIndex(type, i) == type

\* Mutant: the id counts rows from one
MakeIdOneBased(type, i) == type \o <<"-">> \o Decimal(i + 1)

\* id: `${type}-${i}`
MakeId(type, i) == type \o <<"-">> \o Decimal(i)

\* const base = { id, type, category, ... }
Base(row, i) ==
    [id |-> MakeId(TypeOf(row), i), type |-> TypeOf(row), category |-> CategoryOf(row)]

\* results.data.forEach((row, i) => ...): the rows pushed to the array of `kind`
RECURSIVE ParseKind(_, _, _)
ParseKind(rs, kind, n) ==
    IF n = 0 THEN <<>>
    ELSE LET before == ParseKind(rs, kind, n - 1)
             type == TypeOf(rs[n])
         IN  IF type # <<>> /\ type = kind
             THEN Append(before, Base(rs[n], n - 1))
             ELSE before

ParseInfo(rs) == ParseKind(rs, StrInfo, Len(rs))
ParseDilemme(rs) == ParseKind(rs, StrDilemme, Len(rs))

\* Code unit of a character, the key Array.prototype.sort compares strings by
CharCode(c) ==
    CASE c = " " -> 32
      [] c = "-" -> 45
      [] c \in {"0", "1", "2", "3", "4", "5", "6", "7", "8", "9"} ->
            48 + (CHOOSE d \in 0..9 : Digit(d) = c)
      [] c = "A" -> 65
      [] c = "B" -> 66
      [] c = "d" -> 100
      [] c = "e" -> 101
      [] c = "f" -> 102
      [] c = "i" -> 105
      [] c = "l" -> 108
      [] c = "m" -> 109
      [] c = "n" -> 110
      [] c = "o" -> 111
      [] c = "r" -> 114
      [] c = "s" -> 115
      [] c = "t" -> 116
      [] c = "u" -> 117

\* a < b in the default order of Array.prototype.sort
RECURSIVE StrLess(_, _)
StrLess(a, b) ==
    IF b = <<>> THEN FALSE
    ELSE IF a = <<>> THEN TRUE
    ELSE IF Head(a) = Head(b) THEN StrLess(Tail(a), Tail(b))
    ELSE CharCode(Head(a)) < CharCode(Head(b))

\* Array.from(new Set(xs)).sort(): the elements of S in ascending order
SortSet(S) ==
    CHOOSE s \in [1..Cardinality(S) -> S] :
        \A i, j \in 1..Cardinality(S) : i < j => StrLess(s[i], s[j])

\* Mutant: only the info cards contribute their categories
CatsOfInfo(info, dilemme) == SortSet({c.category : c \in Range(info)})

\* const cats = Array.from(new Set([...info, ...dilemme].map((c) => c.category))).sort()
Cats(info, dilemme) == SortSet({c.category : c \in Range(info \o dilemme)})

-----------------------------------------------------------------------------
(* Derived values of a render *)

\* Mutant: auto puts the dilemme cards first
EffectiveDilemmeFirst(cs, m) ==
    IF m = "auto" THEN cs.dilemme \o cs.info ELSE cs[m]

\* const effective = useMemo(...)
EffectiveOf(cs, m) ==
    IF m = "auto" THEN cs.info \o cs.dilemme ELSE cs[m]

effective == EffectiveOf(cards, mode)

Includes(s, x) == x \in Range(s)

\* Mutant: an empty selection is applied as a filter too
PoolOfAlwaysFiltered(eff, sel) == SelectSeq(eff, LAMBDA c : Includes(sel, c.category))

\* Mutant: only the first selected category is matched
PoolOfFirstSelected(eff, sel) ==
    IF Len(sel) = 0
    THEN eff
    ELSE SelectSeq(eff, LAMBDA c : c.category = sel[1])

\* const pool = useMemo(...)
PoolOf(eff, sel) ==
    IF Len(sel) = 0
    THEN eff
    ELSE SelectSeq(eff, LAMBDA c : Includes(sel, c.category))

pool == PoolOf(effective, selectedCategories)

\* Mutant: the draw forgets the played filter
AvailableAll(p, played) == p

\* Mutant: the draw filters the whole effective list instead of the pool
AvailableOfEffective(p, played) == SelectSeq(effective, LAMBDA c : c.id \notin played)

\* Mutant: the draw always takes the first unplayed card
AvailableFirst(p, played) ==
    LET unplayed == SelectSeq(p, LAMBDA c : c.id \notin played)
    IN  IF unplayed = <<>> THEN <<>> ELSE <<Head(unplayed)>>

\* const available = pool.filter((c) => !playedIds.has(c.id))
Available(p, played) == SelectSeq(p, LAMBDA c : c.id \notin played)

\* counts.get(cat) || 0
MapGet(counts, cat) == IF cat \in DOMAIN counts THEN counts[cat] ELSE 0

\* for each counted card c: counts.set(c.category, (counts.get(c.category) || 0) + 1)
CountByCategory(kept) ==
    [cat \in {c.category : c \in Range(kept)} |->
        Cardinality({k \in 1..Len(kept) : kept[k].category = cat})]

\* Mutant: the totals are counted over the filtered pool
PerCategoryTotalsOfPool(eff) == CountByCategory(PoolOf(eff, selectedCategories))

\* const perCategoryTotals = useMemo(...)
PerCategoryTotalsOf(eff) == CountByCategory(eff)

perCategoryTotals == PerCategoryTotalsOf(effective)

\* Mutant: the played counter counts the cards that are not played
PerCategoryPlayedNegated(eff, played) ==
    CountByCategory(SelectSeq(eff, LAMBDA c : c.id \notin played))

\* const perCategoryPlayed = useMemo(...)
PerCategoryPlayedOf(eff, played) ==
    CountByCategory(SelectSeq(eff, LAMBDA c : c.id \in played))

perCategoryPlayed == PerCategoryPlayedOf(effective, playedIds)

-----------------------------------------------------------------------------
(* Inputs *)

SeqsUpTo(S, n) == UNION {[1..k -> S] : k \in 0..n}

\* Rows of a session: well-formed cards of two categories, and the blank line
SessionRows ==
    {[type |-> t, category |-> c] : t \in {StrInfo, StrDilemme}, c \in {StrA, StrB}}
        \cup {[type |-> <<>>]}

\* Type fields that yield a card, bare and padded
CardTypes == {StrInfo, <<" ">> \o StrInfo \o <<" ">>, StrDilemme}

\* Type fields that yield none: empty, blank, unrecognized
SkipTypes == {<<>>, <<" ">>, StrInfo \o <<"s">>}

CategoryInputs == {<<>>, <<" ">>, StrA, <<" ", "A", " ">>, StrB}

\* Rows of the parser: a card row with any category field or none, a skipped
\* row, the blank last line, a row without a type column
ParseRows ==
    {[type |-> t, category |-> c] : t \in CardTypes, c \in CategoryInputs}
        \cup {[type |-> t] : t \in {StrInfo, StrDilemme, <<>>}}
        \cup {[type |-> t, category |-> StrA] : t \in SkipTypes}
        \cup {[category |-> StrA]}

-----------------------------------------------------------------------------
(* Initial state: the useState initial values, the fetch not yet answered *)

NoCard == <<>>

\* What a handler that clears the session found in it
Saw == [played |-> Cardinality(playedIds), shown |-> card # NoCard,
        guide |-> showGuide, done |-> hasCompleted]

Nothing == [played |-> 0, shown |-> FALSE, guide |-> FALSE, done |-> FALSE]

InitState ==
    /\ fetchState = "pending"
    /\ mode = "auto"
    /\ cards = [info |-> <<>>, dilemme |-> <<>>]
    /\ allCategories = <<>>
    /\ selectedCategories = <<>>
    /\ showFilters = FALSE
    /\ card = NoCard
    /\ showGuide = FALSE
    /\ playedIds = {}
    /\ hasCompleted = FALSE
    /\ loaded = FALSE
    /\ returned = {}
    /\ attempts = 0
    /\ lastOp = [op |-> "mount", saw |-> Nothing]
    /\ timers = <<>>
    /\ usedIndices = <<>>
    /\ index = <<>>
    /\ sampling = FALSE

Init == rows \in SeqsUpTo(SessionRows, MaxRows) /\ InitState

InitParse == rows \in SeqsUpTo(ParseRows, MaxParseRows) /\ InitState

-----------------------------------------------------------------------------
(* Loading *)

\* Mutant: a failed fetch is tried again and may complete
FetchCompleteAfterRetry ==
    /\ fetchState \in {"pending", "failed"}
    /\ fetchState' = "done"
    /\ cards' = [info |-> ParseInfo(rows), dilemme |-> ParseDilemme(rows)]
    /\ allCategories' = Cats(ParseInfo(rows), ParseDilemme(rows))
    /\ loaded' = TRUE
    /\ lastOp' = [op |-> "fetchComplete", saw |-> Nothing]
    /\ UNCHANGED <<indexDraw, timers, rows, mode, selectedCategories, showFilters, card, showGuide,
                   playedIds, hasCompleted, returned, attempts>>

\* Papa.parse complete: setCards, setAllCategories, setLoaded(true)
FetchComplete ==
    /\ fetchState = "pending"
    /\ fetchState' = "done"
    /\ cards' = [info |-> ParseInfo(rows), dilemme |-> ParseDilemme(rows)]
    /\ allCategories' = Cats(ParseInfo(rows), ParseDilemme(rows))
    /\ loaded' = TRUE
    /\ lastOp' = [op |-> "fetchComplete", saw |-> Nothing]
    /\ UNCHANGED <<indexDraw, timers, rows, mode, selectedCategories, showFilters, card, showGuide,
                   playedIds, hasCompleted, returned, attempts>>

\* await fetch(url) or await response.text() rejects: nothing catches it
FetchFail ==
    /\ fetchState = "pending"
    /\ fetchState' = "failed"
    /\ lastOp' = [op |-> "fetchFail", saw |-> Nothing]
    /\ UNCHANGED <<indexDraw, timers, rows, mode, cards, allCategories, selectedCategories, showFilters,
                   card, showGuide, playedIds, hasCompleted, loaded, returned, attempts>>

-----------------------------------------------------------------------------
(* Session handlers; the page below the loading guard exists once loaded *)

\* Mutant: exhaustion is reported while one card is still available
ExhaustedEarly(available) == Len(available) <= 1

\* Mutant: exhaustion is reported only once something was played
ExhaustedAfterPlay(available) == Len(available) = 0 /\ playedIds # {}

\* if (available.length === 0)
Exhausted(available) == Len(available) = 0

\* Mutant: the exhausted branch also clears the shown card
PickCardClearsCard ==
    /\ loaded
    /\ ~hasCompleted
    /\ LET available == Available(pool, playedIds)
       IN  IF Exhausted(available)
           THEN /\ hasCompleted' = TRUE
                /\ card' = NoCard
                /\ UNCHANGED <<showGuide, playedIds, returned>>
           ELSE \E k \in 1..Len(available) :
                    LET next == available[k]
                    IN  /\ card' = <<next>>
                        /\ showGuide' = FALSE
                        /\ playedIds' = playedIds \cup {next.id}
                        /\ returned' = returned \cup {next.id}
                        /\ UNCHANGED hasCompleted
    /\ attempts' = attempts + 1
    /\ lastOp' = [op |-> "pickCard", saw |-> Nothing]
    /\ UNCHANGED <<indexDraw, timers, rows, fetchState, mode, cards, allCategories, selectedCategories,
                   showFilters, loaded>>

\* pickCard, on "Tirer une carte" (offered while hasCompleted is false)
PickCard ==
    /\ loaded
    /\ ~hasCompleted
    /\ LET available == Available(pool, playedIds)
       IN  IF Exhausted(available)
           THEN /\ hasCompleted' = TRUE
                /\ UNCHANGED <<card, showGuide, playedIds, returned>>
           ELSE \E k \in 1..Len(available) :
                    LET next == available[k]
                    IN  /\ card' = <<next>>
                        /\ showGuide' = FALSE
                        /\ playedIds' = playedIds \cup {next.id}
                        /\ returned' = returned \cup {next.id}
                        /\ UNCHANGED hasCompleted
    /\ attempts' = attempts + 1
    /\ lastOp' = [op |-> "pickCard", saw |-> Nothing]
    /\ UNCHANGED <<indexDraw, timers, rows, fetchState, mode, cards, allCategories, selectedCategories,
                   showFilters, loaded>>

\* Mutant: resetDeck without setShowGuide(false)
ResetSessionKeepGuide ==
    /\ playedIds' = {}
    /\ card' = NoCard
    /\ UNCHANGED showGuide
    /\ hasCompleted' = FALSE
    /\ returned' = {}
    /\ attempts' = 0

\* Mutant: resetDeck without setPlayedIds(new Set())
ResetSessionKeepPlayed ==
    /\ UNCHANGED playedIds
    /\ card' = NoCard
    /\ showGuide' = FALSE
    /\ hasCompleted' = FALSE
    /\ returned' = {}
    /\ attempts' = 0

\* resetDeck: the four setters
ResetSession ==
    /\ playedIds' = {}
    /\ card' = NoCard
    /\ showGuide' = FALSE
    /\ hasCompleted' = FALSE
    /\ returned' = {}
    /\ attempts' = 0

\* resetDeck, on "Recommencer" (offered while hasCompleted is true)
ResetDeck ==
    /\ loaded
    /\ hasCompleted
    /\ ResetSession
    /\ lastOp' = [op |-> "resetDeck", saw |-> Saw]
    /\ UNCHANGED <<indexDraw, timers, rows, fetchState, mode, cards, allCategories, selectedCategories,
                   showFilters, loaded>>

\* Mutant: the effect runs after every click on a mode button
SetModeAlwaysResets(m) ==
    /\ loaded
    /\ mode' = m
    /\ ResetSession
    /\ lastOp' = [op |-> "setMode", saw |-> Saw]
    /\ UNCHANGED <<indexDraw, timers, rows, fetchState, cards, allCategories, selectedCategories,
                   showFilters, loaded>>

\* Mutant: the mode buttons are rendered above the loading guard
SetModeUngated(m) ==
    /\ mode' = m
    /\ IF m # mode
       THEN ResetSession
       ELSE UNCHANGED <<playedIds, card, showGuide, hasCompleted, returned, attempts>>
    /\ lastOp' = [op |-> "setMode", saw |-> Saw]
    /\ UNCHANGED <<indexDraw, timers, rows, fetchState, cards, allCategories, selectedCategories,
                   showFilters, loaded>>

\* setMode(m) on a mode button, then useEffect(resetDeck, [mode, selectedCategories])
\* when the render that follows sees another mode
SetMode(m) ==
    /\ loaded
    /\ mode' = m
    /\ IF m # mode
       THEN ResetSession
       ELSE UNCHANGED <<playedIds, card, showGuide, hasCompleted, returned, attempts>>
    /\ lastOp' = [op |-> "setMode", saw |-> Saw]
    /\ UNCHANGED <<indexDraw, timers, rows, fetchState, cards, allCategories, selectedCategories,
                   showFilters, loaded>>

\* Mutant: the category is appended whether or not it is selected
ToggledAlwaysAppends(prev, cat) == prev \o <<cat>>

\* prev.includes(cat) ? prev.filter((c) => c !== cat) : [...prev, cat]
Toggled(prev, cat) ==
    IF Includes(prev, cat)
    THEN SelectSeq(prev, LAMBDA c : c # cat)
    ELSE prev \o <<cat>>

\* Mutant: the effect depends on [mode] alone, so a filter change resets nothing
ToggleCategoryNoReset(cat) ==
    /\ loaded
    /\ showFilters
    /\ Includes(allCategories, cat)
    /\ selectedCategories' = Toggled(selectedCategories, cat)
    /\ lastOp' = [op |-> "toggleCategory", saw |-> Saw]
    /\ UNCHANGED <<indexDraw, timers, rows, fetchState, mode, cards, allCategories, showFilters, loaded,
                   playedIds, card, showGuide, hasCompleted, returned, attempts>>

\* toggleCategory(cat) on a category chip (rendered while showFilters), then the
\* effect: the new array is never the previous one, so resetDeck always runs
ToggleCategory(cat) ==
    /\ loaded
    /\ showFilters
    /\ Includes(allCategories, cat)
    /\ selectedCategories' = Toggled(selectedCategories, cat)
    /\ ResetSession
    /\ lastOp' = [op |-> "toggleCategory", saw |-> Saw]
    /\ UNCHANGED <<indexDraw, timers, rows, fetchState, mode, cards, allCategories, showFilters, loaded>>

\* setShowFilters((s) => !s)
ToggleFilters ==
    /\ loaded
    /\ showFilters' = ~showFilters
    /\ UNCHANGED <<indexDraw, timers, lastOp, rows, fetchState, mode, cards, allCategories, selectedCategories,
                   card, showGuide, playedIds, hasCompleted, loaded, returned, attempts>>

\* setShowGuide(!showGuide) on the button of the shown card
ToggleGuide ==
    /\ loaded
    /\ card # NoCard
    /\ showGuide' = ~showGuide
    /\ UNCHANGED <<indexDraw, timers, lastOp, rows, fetchState, mode, cards, allCategories, selectedCategories,
                   showFilters, card, playedIds, hasCompleted, loaded, returned, attempts>>

Modes == {"auto", "info", "dilemme"}

Next ==
    \/ FetchComplete
    \/ FetchFail
    \/ PickCard
    \/ ResetDeck
    \/ \E m \in Modes : SetMode(m)
    \/ \E cat \in Range(allCategories) : ToggleCategory(cat)
    \/ ToggleFilters
    \/ ToggleGuide

Spec == Init /\ [][Next]_vars

NextParse == FetchComplete \/ FetchFail

SpecParse == InitParse /\ [][NextParse]_vars

-----------------------------------------------------------------------------
(* The variant with swipe-to-dismiss: the same handlers, a button that clears
   the filters, and a card that can be dragged away *)

\* Rows of the swipe sessions: the two types, in two categories
SwipeRows == {[type |-> StrInfo, category |-> StrA], [type |-> StrDilemme, category |-> StrB]}

InitSwipe == rows \in SeqsUpTo(SwipeRows, MaxSwipeRows) /\ InitState

\* setSelectedCategories([]) on "Effacer les filtres" (offered while
\* hasCompleted is true), then the effect: the new array is a new value
ClearFilters ==
    /\ loaded
    /\ hasCompleted
    /\ selectedCategories' = <<>>
    /\ ResetSession
    /\ lastOp' = [op |-> "clearFilters", saw |-> Saw]
    /\ UNCHANGED <<indexDraw, timers, rows, fetchState, mode, cards, allCategories, showFilters,
                   loaded>>

\* Mutant: the dismissed card is also removed from the catalog
SwipeDismissDropsCard ==
    /\ loaded
    /\ card # NoCard
    /\ Len(timers) < MaxTimers
    /\ card' = NoCard
    /\ cards' = [kind \in DOMAIN cards |->
                    SelectSeq(cards[kind], LAMBDA c : c.id # card[1].id)]
    /\ timers' = Append(timers, Available(pool, playedIds))
    /\ lastOp' = [op |-> "swipe", saw |-> Nothing]
    /\ UNCHANGED <<indexDraw, rows, fetchState, mode, allCategories, selectedCategories,
                   showFilters, showGuide, playedIds, hasCompleted, loaded, returned,
                   attempts>>

\* onDragEnd past the threshold: setCard(null); setTimeout(pickCard, 120).
\* The callback is the pickCard of the render that showed the card: it keeps
\* that render's pool and playedIds, hence that render's list of available
\* cards, which is what the pending timer holds here.
SwipeDismiss ==
    /\ loaded
    /\ card # NoCard
    /\ Len(timers) < MaxTimers
    /\ card' = NoCard
    /\ timers' = Append(timers, Available(pool, playedIds))
    /\ lastOp' = [op |-> "swipe", saw |-> Nothing]
    /\ UNCHANGED <<indexDraw, rows, fetchState, mode, cards, allCategories, selectedCategories,
                   showFilters, showGuide, playedIds, hasCompleted, loaded, returned,
                   attempts>>

\* Mutant: a delayed draw that finds a card also calls setHasCompleted(false)
TimerFireClearsCompleted ==
    /\ timers # <<>>
    /\ LET available == Head(timers)
       IN  IF Exhausted(available)
           THEN /\ hasCompleted' = TRUE
                /\ UNCHANGED <<card, showGuide, playedIds, returned>>
           ELSE \E k \in 1..Len(available) :
                    LET next == available[k]
                    IN  /\ card' = <<next>>
                        /\ showGuide' = FALSE
                        /\ playedIds' = playedIds \cup {next.id}
                        /\ returned' = returned \cup {next.id}
                        /\ hasCompleted' = FALSE
    /\ timers' = Tail(timers)
    /\ attempts' = attempts + 1
    /\ lastOp' = [op |-> "timerPickCard", saw |-> Nothing]
    /\ UNCHANGED <<indexDraw, rows, fetchState, mode, cards, allCategories, selectedCategories,
                   showFilters, loaded>>

\* The timer fires: pickCard runs over the available cards of the render it was
\* taken from; setPlayedIds((prev) => ...) and the other setters write the
\* current state
TimerFire ==
    /\ timers # <<>>
    /\ LET available == Head(timers)
       IN  IF Exhausted(available)
           THEN /\ hasCompleted' = TRUE
                /\ UNCHANGED <<card, showGuide, playedIds, returned>>
           ELSE \E k \in 1..Len(available) :
                    LET next == available[k]
                    IN  /\ card' = <<next>>
                        /\ showGuide' = FALSE
                        /\ playedIds' = playedIds \cup {next.id}
                        /\ returned' = returned \cup {next.id}
                        /\ UNCHANGED hasCompleted
    /\ timers' = Tail(timers)
    /\ attempts' = attempts + 1
    /\ lastOp' = [op |-> "timerPickCard", saw |-> Nothing]
    /\ UNCHANGED <<indexDraw, rows, fetchState, mode, cards, allCategories, selectedCategories,
                   showFilters, loaded>>

NextSwipe ==
    \/ Next
    \/ ClearFilters
    \/ SwipeDismiss
    \/ TimerFire

SpecSwipe == InitSwipe /\ [][NextSwipe]_vars

\* The event loop runs a pending timer callback once its delay has elapsed
SpecSwipeFair == SpecSwipe /\ WF_vars(TimerFire)

-----------------------------------------------------------------------------
(* The index-based variant (src/unnamed/part_000): two modes, a fixed list of
   category buttons, cards without ids, and a draw that samples an index of
   filteredCards until it finds one that is not in usedIndices *)

\* The state this variant does not have
appOnly == <<allCategories, showFilters, playedIds, returned, attempts, lastOp, timers>>

\* const categories = [...]: two of the eight labels
categories == {StrA, StrB}

IndexModes == {"info", "dilemme"}

\* Rows of the index-based sessions; the type field is compared as it is, so a
\* padded one yields no card
IndexRows ==
    {[type |-> StrInfo, category |-> StrA], [type |-> StrInfo, category |-> StrB],
     [type |-> StrDilemme, category |-> StrA],
     [type |-> <<" ">> \o StrInfo, category |-> StrA]}

\* results.data.forEach((row) => ...): the entries pushed to the array of `kind`
RECURSIVE IndexParseKind(_, _, _)
IndexParseKind(rs, kind, n) ==
    IF n = 0 THEN <<>>
    ELSE LET before == IndexParseKind(rs, kind, n - 1)
         IN  IF "type" \in DOMAIN rs[n] /\ rs[n]["type"] = kind
             THEN Append(before, [category |-> rs[n]["category"]])
             ELSE before

\* const filteredCards = cards[mode].filter(...)
FilteredCardsOf(cs, m, sel) ==
    SelectSeq(cs[m], LAMBDA c : Len(sel) = 0 \/ Includes(sel, c.category))

filteredCards == FilteredCardsOf(cards, mode, selectedCategories)

\* The values of Math.floor(Math.random() * n)
RandomIndex(n) == IF n = 0 THEN {0} ELSE 0..(n - 1)

InitIndex ==
    /\ rows \in SeqsUpTo(IndexRows, MaxIndexRows)
    /\ fetchState = "pending"
    /\ mode = "info"
    /\ cards = [info |-> <<>>, dilemme |-> <<>>]
    /\ selectedCategories = <<>>
    /\ card = NoCard
    /\ showGuide = FALSE
    /\ usedIndices = <<>>
    /\ hasCompleted = FALSE
    /\ loaded = FALSE
    /\ index = <<>>
    /\ sampling = FALSE
    /\ allCategories = <<>>
    /\ showFilters = FALSE
    /\ playedIds = {}
    /\ returned = {}
    /\ attempts = 0
    /\ lastOp = [op |-> "mount", saw |-> Nothing]
    /\ timers = <<>>

\* Papa.parse complete: setCards, setLoaded(true)
IndexFetchComplete ==
    /\ fetchState = "pending"
    /\ fetchState' = "done"
    /\ cards' = [info |-> IndexParseKind(rows, StrInfo, Len(rows)),
                 dilemme |-> IndexParseKind(rows, StrDilemme, Len(rows))]
    /\ loaded' = TRUE
    /\ UNCHANGED <<appOnly, indexDraw, rows, mode, selectedCategories, card, showGuide,
                   hasCompleted>>

\* await fetch(url) or await response.text() rejects
IndexFetchFail ==
    /\ fetchState = "pending"
    /\ fetchState' = "failed"
    /\ UNCHANGED <<appOnly, indexDraw, rows, mode, cards, selectedCategories, card,
                   showGuide, hasCompleted, loaded>>

\* pickCard on "Tirer une carte", up to the do/while: the length test, then
\* either setHasCompleted(true) and return, or `let index` and the loop
IndexPickCard ==
    /\ loaded
    /\ ~hasCompleted
    /\ ~sampling
    /\ IF Len(usedIndices) = Len(filteredCards)
       THEN /\ hasCompleted' = TRUE
            /\ UNCHANGED <<sampling, index>>
       ELSE /\ sampling' = TRUE
            /\ index' = <<>>
            /\ UNCHANGED hasCompleted
    /\ UNCHANGED <<appOnly, usedIndices, rows, fetchState, mode, cards, selectedCategories,
                   card, showGuide, loaded>>

\* One pass of do { index = Math.floor(Math.random() * filteredCards.length) }
\* while (usedIndices.includes(index)) that drew i, and on leaving the loop the
\* three setters
IndexSample(i) ==
    /\ sampling
    /\ i \in RandomIndex(Len(filteredCards))
    /\ IF Includes(usedIndices, i)
       THEN /\ index' = <<i>>
            /\ UNCHANGED <<sampling, usedIndices, card, showGuide>>
       ELSE /\ usedIndices' = Append(usedIndices, i)
            /\ card' = <<filteredCards[i + 1]>>
            /\ showGuide' = FALSE
            /\ sampling' = FALSE
            /\ index' = <<>>
    /\ UNCHANGED <<appOnly, rows, fetchState, mode, cards, selectedCategories,
                   hasCompleted, loaded>>

\* Mutant: resetDeck without setUsedIndices([])
IndexResetSessionKeepUsed ==
    /\ UNCHANGED usedIndices
    /\ card' = NoCard
    /\ showGuide' = FALSE
    /\ hasCompleted' = FALSE

\* resetDeck: the four setters
IndexResetSession ==
    /\ usedIndices' = <<>>
    /\ card' = NoCard
    /\ showGuide' = FALSE
    /\ hasCompleted' = FALSE

\* resetDeck, on "Recommencer" (offered while hasCompleted is true)
IndexResetDeck ==
    /\ loaded
    /\ hasCompleted
    /\ ~sampling
    /\ IndexResetSession
    /\ UNCHANGED <<appOnly, index, sampling, rows, fetchState, mode, cards,
                   selectedCategories, loaded>>

\* setMode(m) on a mode button, then useEffect(resetDeck, [mode, selectedCategories])
\* when the render that follows sees another mode
IndexSetMode(m) ==
    /\ loaded
    /\ ~sampling
    /\ mode' = m
    /\ IF m # mode
       THEN IndexResetSession
       ELSE UNCHANGED <<usedIndices, card, showGuide, hasCompleted>>
    /\ UNCHANGED <<appOnly, index, sampling, rows, fetchState, cards, selectedCategories,
                   loaded>>

\* toggleCategory(cat) on a button of the fixed list, then the effect: the new
\* array is never the previous one
IndexToggleCategory(cat) ==
    /\ loaded
    /\ ~sampling
    /\ selectedCategories' = Toggled(selectedCategories, cat)
    /\ IndexResetSession
    /\ UNCHANGED <<appOnly, index, sampling, rows, fetchState, mode, cards, loaded>>

\* setShowGuide(!showGuide) on the button of the shown card
IndexToggleGuide ==
    /\ loaded
    /\ ~sampling
    /\ card # NoCard
    /\ showGuide' = ~showGuide
    /\ UNCHANGED <<appOnly, indexDraw, rows, fetchState, mode, cards, selectedCategories,
                   card, hasCompleted, loaded>>

NextIndex ==
    \/ IndexFetchComplete
    \/ IndexFetchFail
    \/ IndexPickCard
    \/ \E i \in RandomIndex(Len(filteredCards)) : IndexSample(i)
    \/ IndexResetDeck
    \/ \E m \in IndexModes : IndexSetMode(m)
    \/ \E cat \in categories : IndexToggleCategory(cat)
    \/ IndexToggleGuide

\* A pass of the loop that draws an index not yet used
IndexSampleFresh ==
    \E i \in RandomIndex(Len(filteredCards)) : ~Includes(usedIndices, i) /\ IndexSample(i)

\* Math.random() is fair: a value it can return is not withheld forever
SpecIndex == InitIndex /\ [][NextIndex]_vars /\ WF_vars(IndexSampleFresh)

-----------------------------------------------------------------------------
(* Properties of the session (Spec) *)

\* A step that is one pickCard call
DrawStep == attempts' = attempts + 1

\* A step that is one explicit resetDeck ("Recommencer")
ResetStep == hasCompleted /\ lastOp'.op = "resetDeck"

\* The cards of both kinds, whatever the mode
AllCards == Range(cards.info \o cards.dilemme)

\* Ids of the active pool, said without the model's pool: the cards the mode
\* allows whose category passes the selection
ActivePoolIds ==
    {c.id : c \in {x \in AllCards :
                      /\ mode = "auto" \/ (mode = "info" /\ x.type = StrInfo)
                                       \/ (mode = "dilemme" /\ x.type = StrDilemme)
                      /\ selectedCategories = <<>>
                            \/ \E k \in 1..Len(selectedCategories) :
                                  selectedCategories[k] = x.category}}

C2_ExhaustionCount ==
    loaded =>
        LET N == Cardinality(ActivePoolIds)
        IN  /\ attempts <= N + 1
            /\ attempts = 0 => (playedIds = {} /\ ~hasCompleted /\ card = NoCard)
            /\ attempts <= N => (~hasCompleted /\ Cardinality(returned) = attempts)
            /\ attempts = N + 1 => (hasCompleted /\ Cardinality(returned) = N)
            /\ returned \subseteq ActivePoolIds

C2_Witness ==
    /\ lastOp.op = "pickCard"
    /\ Cardinality(ActivePoolIds) = 3
    /\ attempts = 4
    /\ hasCompleted

\* C3: a step that changes mode or selectedCategories leaves played empty,
\* no current card and exhausted false, with no separate reset call.
C3_FilterModeReset ==
    [][(mode' # mode \/ selectedCategories' # selectedCategories) =>
            (playedIds' = {} /\ card' = NoCard /\ ~hasCompleted')]_vars

C3_Witness ==
    /\ lastOp.op = "toggleCategory"
    /\ lastOp.saw.played > 0
    /\ lastOp.saw.shown
    /\ lastOp.saw.done
    /\ playedIds = {}

\* C4: a draw reports exhaustion exactly when every card of the active pool is
\* played, whatever is still unplayed outside the pool.
C4_ExhaustionAgainstPool ==
    [][DrawStep => (hasCompleted' <=> ActivePoolIds \subseteq playedIds)]_vars

C4_Witness ==
    /\ lastOp.op = "pickCard"
    /\ hasCompleted
    /\ playedIds # {}
    /\ \E c \in AllCards : c.id \notin playedIds

\* C5: an explicit reset empties played, clears the current card, exhausted and
\* the guide flag, and keeps mode, selectedCategories and the catalog.
C5_ExplicitReset ==
    [][ResetStep =>
            /\ playedIds' = {} /\ card' = NoCard /\ ~hasCompleted' /\ ~showGuide'
            /\ mode' = mode /\ selectedCategories' = selectedCategories
            /\ cards' = cards /\ allCategories' = allCategories]_vars

C5_Witness ==
    /\ lastOp.op = "resetDeck"
    /\ lastOp.saw.played > 0
    /\ lastOp.saw.shown
    /\ lastOp.saw.guide
    /\ mode # "auto"
    /\ selectedCategories # <<>>
    /\ playedIds = {}

\* A pickCard call that returns a card
DrawsCard == PickCard /\ card' # NoCard /\ ~hasCompleted'

\* C6: after an explicit reset of an exhausted session over a non-empty pool,
\* every card of the pool is unplayed and the next draw returns a card.
C6_Recoverable ==
    (lastOp.op = "resetDeck" /\ ActivePoolIds # {}) =>
        /\ ActivePoolIds \cap playedIds = {}
        /\ attempts = 0
        /\ ~hasCompleted
        /\ ENABLED DrawsCard

C6_Witness ==
    /\ lastOp.op = "resetDeck"
    /\ lastOp.saw.done
    /\ Cardinality(ActivePoolIds) >= 2
    /\ lastOp.saw.played = Cardinality(ActivePoolIds)
    /\ playedIds = {}

\* C7: over an empty pool the first draw is defined, sets exhausted, returns no
\* card and adds nothing to played.
C7_EmptyPoolDraw ==
    /\ (loaded /\ ~hasCompleted /\ ActivePoolIds = {}) => ENABLED PickCard
    /\ (lastOp.op = "pickCard" /\ ActivePoolIds = {}) =>
            (hasCompleted /\ card = NoCard /\ playedIds = {} /\ attempts = 1)

C7_Witness ==
    /\ lastOp.op = "pickCard"
    /\ ActivePoolIds = {}
    /\ AllCards # {}
    /\ selectedCategories # <<>>
    /\ hasCompleted

-----------------------------------------------------------------------------
(* Properties of the row parser (SpecParse) *)

Spaces(n) == [k \in 1..n |-> " "]

\* s is t with spaces, and nothing else, added before and after
Padded(s, t) == \E a, b \in 0..Len(s) : s = Spaces(a) \o t \o Spaces(b)

Blank(s) == \A k \in 1..Len(s) : s[k] = " "

KindStr(kind) == IF kind = "info" THEN StrInfo ELSE StrDilemme

\* Positions of the raw rows whose type field is `kind` up to surrounding spaces
RowsOfKind(kind) ==
    {j \in 1..Len(rows) :
        "type" \in DOMAIN rows[j] /\ Padded(rows[j]["type"], KindStr(kind))}

\* The p-th smallest element of a set of numbers
Nth(S, p) == CHOOSE j \in S : Cardinality({i \in S : i < j}) = p - 1

\* C8: no two cards of the parsed catalog, info and dilemme together, share an id.
C8_IdUnique ==
    loaded =>
        LET all == cards.info \o cards.dilemme
        IN  \A i, j \in 1..Len(all) : i # j => all[i].id # all[j].id

C8_Witness ==
    /\ loaded
    /\ Len(cards.info) = 2
    /\ cards.info[1].category = cards.info[2].category

\* C9: a row whose type is missing, blank or not "info" or "dilemme" after
\* trimming yields no card and no error; every other row yields one card in the
\* sequence of its type, in source order.
C9_RowSkip ==
    /\ fetchState = "pending" => ENABLED FetchComplete
    /\ loaded =>
         \A kind \in {"info", "dilemme"} :
            /\ Len(cards[kind]) = Cardinality(RowsOfKind(kind))
            /\ \A p \in 1..Len(cards[kind]) :
                 /\ cards[kind][p].type = KindStr(kind)
                 /\ cards[kind][p].id =
                       KindStr(kind) \o <<"-">> \o Decimal(Nth(RowsOfKind(kind), p) - 1)

C9_Witness ==
    /\ loaded
    /\ Len(rows) = 2
    /\ "type" \in DOMAIN rows[1] /\ rows[1]["type"] = StrInfo \o <<"s">>
    /\ "type" \in DOMAIN rows[2] /\ rows[2]["type"] = <<" ">> \o StrInfo \o <<" ">>
    /\ Len(cards.info) = 1
    /\ cards.dilemme = <<>>

-----------------------------------------------------------------------------
(* Properties of the derived values (Spec) *)

\* The categories a chip or a card can carry
AllCats == Range(allCategories) \cup {c.category : c \in AllCards}

\* The cards of the effective list that carry category cat
CardsOfCat(cat) == {c \in Range(effective) : c.category = cat}

\* C11: for every category the played counter is at most the total counter,
\* and the two are equal once every card of the category in the effective list
\* has been drawn.
C11_ProgressCounters ==
    loaded =>
        \A cat \in AllCats :
            /\ MapGet(perCategoryPlayed, cat) <= MapGet(perCategoryTotals, cat)
            /\ (\A c \in CardsOfCat(cat) : c.id \in returned) =>
                    MapGet(perCategoryPlayed, cat) = MapGet(perCategoryTotals, cat)

C11_Witness ==
    /\ loaded
    /\ \E cat \in AllCats :
          /\ Cardinality(CardsOfCat(cat)) = 2
          /\ \A c \in CardsOfCat(cat) : c.id \in returned
          /\ MapGet(perCategoryPlayed, cat) = 2
    /\ \E cat \in AllCats :
          /\ MapGet(perCategoryPlayed, cat) = 0
          /\ MapGet(perCategoryTotals, cat) = 1

\* C12: in mode auto the effective list is the info sequence followed by the
\* dilemme sequence, each in catalog order; in mode info it is the info
\* sequence, in mode dilemme the dilemme sequence.
C12_EffectiveList ==
    loaded =>
        /\ mode = "auto" =>
              /\ Len(effective) = Len(cards.info) + Len(cards.dilemme)
              /\ \A p \in 1..Len(cards.info) : effective[p] = cards.info[p]
              /\ \A q \in 1..Len(cards.dilemme) :
                    effective[Len(cards.info) + q] = cards.dilemme[q]
        /\ mode = "info" => effective = cards.info
        /\ mode = "dilemme" => effective = cards.dilemme

C12_Witness ==
    /\ loaded
    /\ mode = "auto"
    /\ lastOp.op = "setMode"
    /\ Len(cards.info) = 2
    /\ Len(cards.dilemme) = 1
    /\ TypeOf(rows[1]) = StrDilemme
    /\ effective[1].type = StrInfo
    /\ effective[3].type = StrDilemme

\* C13: with no category selected the active pool is the whole effective list.
C13_EmptySelectionNoFilter ==
    (loaded /\ selectedCategories = <<>>) =>
        /\ pool = effective
        /\ Len(pool) = Cardinality(ActivePoolIds)

C13_Witness ==
    /\ loaded
    /\ selectedCategories = <<>>
    /\ lastOp.op = "toggleCategory"
    /\ Len(pool) = 3
    /\ \E i, j \in 1..Len(pool) : pool[i].category # pool[j].category

\* Position of a card in the effective list
PosInEffective(c) == CHOOSE i \in 1..Len(effective) : effective[i] = c

\* C14: with a non-empty selection the active pool holds exactly the cards of
\* the effective list whose category is selected, each once, in the order of
\* the effective list.
C14_SelectionFilter ==
    (loaded /\ selectedCategories # <<>>) =>
        /\ \A k \in 1..Len(pool) :
              /\ pool[k] \in Range(effective)
              /\ \E n \in 1..Len(selectedCategories) :
                    selectedCategories[n] = pool[k].category
        /\ \A c \in Range(effective) :
              (\E n \in 1..Len(selectedCategories) : selectedCategories[n] = c.category)
                  => c \in Range(pool)
        /\ \A i, j \in 1..Len(pool) :
              i < j => PosInEffective(pool[i]) < PosInEffective(pool[j])

C14_Witness ==
    /\ loaded
    /\ Len(selectedCategories) = 1
    /\ Len(effective) = 3
    /\ Len(pool) = 2
    /\ pool[1] = effective[1]
    /\ pool[2] = effective[3]

\* The cards of both kinds that the mode allows and that carry category cat
ModeCardsOfCat(cat) ==
    {x \in AllCards :
        /\ mode = "auto" \/ (mode = "info" /\ x.type = StrInfo)
                         \/ (mode = "dilemme" /\ x.type = StrDilemme)
        /\ x.category = cat}

\* C21: the total of every category is the number of cards of the current
\* mode's effective list with that category, whatever is selected or played;
\* a category toggle or a draw changes no total.
C21_TotalsIgnoreSelection ==
    /\ [](loaded =>
            \A cat \in AllCats :
                MapGet(perCategoryTotals, cat) = Cardinality(ModeCardsOfCat(cat)))
    /\ [][(DrawStep \/ selectedCategories' # selectedCategories) =>
            perCategoryTotals' = perCategoryTotals]_vars

C21_Witness ==
    /\ loaded
    /\ selectedCategories # <<>>
    /\ playedIds # {}
    /\ \E cat \in AllCats :
          /\ ~Includes(selectedCategories, cat)
          /\ MapGet(perCategoryTotals, cat) = 2

\* C22: the category list holds exactly the categories carried by the info and
\* dilemme cards, whatever the mode, each once, in ascending order.
C22_CategorySet ==
    loaded =>
        /\ Range(allCategories) = {c.category : c \in AllCards}
        /\ Len(allCategories) = Cardinality({c.category : c \in AllCards})
        /\ \A i, j \in 1..Len(allCategories) :
              i < j => StrLess(allCategories[i], allCategories[j])

C22_Witness ==
    /\ loaded
    /\ mode = "info"
    /\ Len(cards.info) = 2
    /\ cards.info[1].category = StrB /\ cards.info[2].category = StrB
    /\ Len(cards.dilemme) = 1
    /\ cards.dilemme[1].category = StrA
    /\ allCategories = <<StrA, StrB>>

-----------------------------------------------------------------------------
(* Properties of loading (Spec) *)

\* C15: while loaded is false no draw, reset, mode change or category toggle
\* is offered, and the session is the empty initial one.
C15_LoadingGate ==
    ~loaded =>
        /\ playedIds = {} /\ card = NoCard /\ ~hasCompleted /\ ~showGuide
        /\ mode = "auto" /\ selectedCategories = <<>>
        /\ returned = {} /\ attempts = 0
        /\ ~ENABLED PickCard
        /\ ~ENABLED ResetDeck
        /\ ~ENABLED (\E m \in Modes : SetMode(m))
        /\ ~ENABLED (\E cat \in {StrA, StrB, StrAutre} : ToggleCategory(cat))

C15_Witness ==
    /\ ~loaded
    /\ fetchState = "pending"
    /\ Len(rows) = 3
    /\ ParseInfo(rows) # <<>>

\* C16: once the fetch has failed, loaded is false and stays false: nothing is
\* tried again and no draw, filter or mode operation is ever offered.
C16_FetchFailurePermanent ==
    /\ [](fetchState = "failed" => (~loaded /\ ~ENABLED Next))
    /\ [][fetchState = "failed" => (fetchState' = "failed" /\ ~loaded')]_vars

C16_Witness ==
    /\ fetchState = "failed"
    /\ lastOp.op = "fetchFail"
    /\ ~loaded
    /\ ParseInfo(rows) # <<>>
    /\ ParseDilemme(rows) # <<>>

-----------------------------------------------------------------------------
(* Properties of the two branches of a draw (Spec) *)

\* Ids of the pool cards not yet played
UnplayedIds == ActivePoolIds \ playedIds

\* C17: while unplayed pool cards remain, a draw can return any of them; it
\* sets current to the chosen card, adds exactly its id to played, hides the
\* guide, and leaves exhausted, mode, selectedCategories and the catalog alone.
C17_SuccessfulDraw ==
    /\ []((loaded /\ ~hasCompleted) =>
            \A id \in UnplayedIds :
                ENABLED (PickCard /\ card' # NoCard /\ card'[1].id = id))
    /\ [][(DrawStep /\ UnplayedIds # {}) =>
            /\ card' # NoCard
            /\ card'[1] \in Range(effective)
            /\ card'[1].id \in UnplayedIds
            /\ playedIds' = playedIds \cup {card'[1].id}
            /\ ~showGuide'
            /\ hasCompleted' = hasCompleted
            /\ mode' = mode /\ selectedCategories' = selectedCategories
            /\ cards' = cards /\ allCategories' = allCategories]_vars

C17_Witness ==
    /\ lastOp.op = "pickCard"
    /\ card # NoCard
    /\ card[1].id \in playedIds
    /\ Cardinality(playedIds) = 2
    /\ Cardinality(UnplayedIds) = 1
    /\ ~showGuide
    /\ ~hasCompleted

\* C18: with no unplayed pool card left, a draw sets exhausted and writes
\* nothing else: played, the guide flag, mode, selectedCategories and the
\* shown card stay as they were.
C18_ExhaustingDraw ==
    [][(DrawStep /\ UnplayedIds = {}) =>
            /\ hasCompleted'
            /\ card' = card
            /\ playedIds' = playedIds
            /\ showGuide' = showGuide
            /\ mode' = mode /\ selectedCategories' = selectedCategories
            /\ cards' = cards /\ allCategories' = allCategories]_vars

C18_Witness ==
    /\ lastOp.op = "pickCard"
    /\ hasCompleted
    /\ card # NoCard
    /\ showGuide
    /\ Cardinality(playedIds) = 2
    /\ selectedCategories # <<>>

-----------------------------------------------------------------------------
(* Properties of the mode buttons and the category chips (Spec) *)

\* A click on the button of the mode that is already active
ModeReselectStep == lastOp'.op = "setMode" /\ lastOp' # lastOp /\ mode' = mode

\* A click on a category chip
ToggleStep == lastOp'.op = "toggleCategory" /\ selectedCategories' # selectedCategories

\* C29: choosing the mode that is already active leaves played, current,
\* exhausted and the guide flag as they were; every category toggle resets
\* them.
C29_ReselectModeNoOp ==
    /\ [][ModeReselectStep =>
            /\ playedIds' = playedIds
            /\ card' = card
            /\ hasCompleted' = hasCompleted
            /\ showGuide' = showGuide]_vars
    /\ [][ToggleStep =>
            /\ playedIds' = {}
            /\ card' = NoCard
            /\ ~hasCompleted'
            /\ ~showGuide']_vars

C29_Witness ==
    /\ lastOp.op = "setMode"
    /\ lastOp.saw.played = 2
    /\ lastOp.saw.guide
    /\ lastOp.saw.done
    /\ Cardinality(playedIds) = 2
    /\ card # NoCard
    /\ showGuide
    /\ hasCompleted

\* s without its k-th element
Without(s, k) == [i \in 1..(Len(s) - 1) |-> IF i < k THEN s[i] ELSE s[i + 1]]

\* C30: a toggle removes the category when it is selected and appends it
\* otherwise; the selection never holds a category twice, holds only offered
\* categories, and toggling a category twice gives back the same selected set.
C30_ToggleCategory ==
    /\ [](/\ \A i, j \in 1..Len(selectedCategories) :
                i # j => selectedCategories[i] # selectedCategories[j]
          /\ Range(selectedCategories) \subseteq Range(allCategories)
          /\ \A cat \in Range(allCategories) :
                Range(Toggled(Toggled(selectedCategories, cat), cat))
                    = Range(selectedCategories))
    /\ [][ToggleStep =>
            \E cat \in Range(allCategories) :
                IF \E k \in 1..Len(selectedCategories) : selectedCategories[k] = cat
                THEN \E k \in 1..Len(selectedCategories) :
                        /\ selectedCategories[k] = cat
                        /\ selectedCategories' = Without(selectedCategories, k)
                ELSE selectedCategories' = Append(selectedCategories, cat)]_vars

C30_Witness ==
    /\ lastOp.op = "toggleCategory"
    /\ lastOp.saw.played = 1
    /\ selectedCategories = <<StrB>>
    /\ allCategories = <<StrA, StrB>>
    /\ Toggled(Toggled(selectedCategories, StrB), StrA) = <<StrA>>

-----------------------------------------------------------------------------
(* Properties of the ids (SpecParse) *)

\* C20: the id of a card is its trimmed type, "-", and the zero-based position
\* of its row among all raw rows, skipped ones included.
C20_IdDerivation ==
    loaded =>
        \A kind \in {"info", "dilemme"} :
            {c.id : c \in Range(cards[kind])} =
                {KindStr(kind) \o <<"-">> \o Decimal(j - 1) : j \in RowsOfKind(kind)}

C20_Witness ==
    /\ loaded
    /\ Len(rows) = 2
    /\ "type" \in DOMAIN rows[1] /\ rows[1]["type"] = <<" ">>
    /\ cards.info = <<>>
    /\ Len(cards.dilemme) = 1
    /\ cards.dilemme[1].id = StrDilemme \o <<"-", "1">>

-----------------------------------------------------------------------------
(* Properties of the variant with swipe-to-dismiss (SpecSwipe) *)

\* C19: in every reachable state with exhausted true, every card of the active
\* pool is played, whatever the interleaving of draws, swipes, resets, mode
\* changes and category toggles.
C19_ExhaustedAgainstCurrentPool ==
    hasCompleted => ActivePoolIds \subseteq playedIds

\* C23: once loaded, the info sequence, the dilemme sequence and the category
\* list are changed by no handler (draw, swipe, delayed draw, reset, mode
\* change, category toggle); only the completion of the load writes them.
C23_CatalogImmutable ==
    /\ [][loaded => (cards' = cards /\ allCategories' = allCategories)]_vars
    /\ [][(cards' # cards \/ allCategories' # allCategories) =>
            (fetchState = "pending" /\ fetchState' = "done" /\ loaded')]_vars

C23_Witness ==
    /\ loaded
    /\ lastOp.op = "timerPickCard"
    /\ mode # "auto"
    /\ selectedCategories # <<>>
    /\ Len(cards.info) = 1 /\ Len(cards.dilemme) = 1
    /\ Len(allCategories) = 2
    /\ card # NoCard

\* C24: in every reachable state every played id is the id of a card of the
\* active pool, and a shown card is a card of the active pool: its kind is
\* allowed by the mode and its category passes the selection.
C24_SessionInActivePool ==
    /\ playedIds \subseteq ActivePoolIds
    /\ card # NoCard =>
          /\ card[1] \in AllCards
          /\ card[1].id \in ActivePoolIds
          /\ mode = "auto" \/ card[1].type = (IF mode = "info" THEN StrInfo ELSE StrDilemme)
          /\ selectedCategories = <<>> \/ Includes(selectedCategories, card[1].category)

\* A step in which a pending timer runs pickCard and finds a card to draw
TimerDrawStep ==
    /\ timers # <<>>
    /\ timers' = Tail(timers)
    /\ lastOp'.op = "timerPickCard"
    /\ Head(timers) # <<>>

\* C25: the draw that runs 120 ms after a swipe never sets as current a card
\* already returned since the last reset, whatever happened between the swipe
\* and the timer (button draw, reset, mode change, category toggle).
C25_DelayedDrawNoRepeat ==
    [][TimerDrawStep => (card' # NoCard /\ card'[1].id \notin returned)]_vars

\* A step in which a draw, by the button or by a pending timer, finds a card
SuccessfulDrawStep ==
    \/ TimerDrawStep
    \/ DrawStep /\ lastOp'.op = "pickCard" /\ UnplayedIds # {}

\* C26: whenever a card is shown its id is in played, and each successful draw
\* leaves played with exactly one more element than before.
C26_CurrentIsPlayed ==
    /\ [](card # NoCard => card[1].id \in playedIds)
    /\ [][SuccessfulDrawStep =>
            Cardinality(playedIds') = Cardinality(playedIds) + 1]_vars

\* C27: exhausted, once true, becomes false only by "Recommencer", by a change
\* of mode or by a write of selectedCategories (toggle or clear); no draw, by
\* the button or by a pending timer, sets it back to false, and while it is
\* true the draw button is not offered.
C27_ExhaustedStable ==
    /\ [][(hasCompleted /\ ~hasCompleted') =>
            \/ lastOp'.op = "resetDeck"
            \/ lastOp'.op = "setMode" /\ mode' # mode
            \/ lastOp'.op \in {"toggleCategory", "clearFilters"}]_vars
    /\ [][(DrawStep /\ hasCompleted) => hasCompleted']_vars
    /\ [](hasCompleted => ~ENABLED PickCard)

C27_Witness ==
    /\ hasCompleted
    /\ lastOp.op = "timerPickCard"
    /\ card # NoCard
    /\ Cardinality(playedIds) = 2
    /\ attempts = 4

\* A step that is one swipe past the threshold
SwipeStep == lastOp'.op = "swipe" /\ Len(timers') = Len(timers) + 1

\* A step in which a pending timer runs pickCard
TimerStep ==
    /\ timers # <<>>
    /\ timers' = Tail(timers)
    /\ lastOp'.op = "timerPickCard"

\* The three parts of C28, each alone
SwipeClearsCurrent == [][SwipeStep => (card' = NoCard /\ timers' # <<>>)]_vars

PendingDrawRuns == (timers # <<>>) ~> (timers = <<>> /\ (card # NoCard \/ hasCompleted))

DelayedDrawFromUnplayed ==
    [][TimerStep =>
            \/ hasCompleted'
            \/ card' # NoCard /\ card'[1].id \in UnplayedIds]_vars

\* C28: a swipe past the threshold clears current at once; the timer being
\* fair, it is eventually followed by a new current card drawn from the pool
\* cards not yet played, or by exhausted = true; the session is never left with
\* no current card, exhausted false and no pending draw.
C28_SwipeProgress ==
    /\ SwipeClearsCurrent
    /\ PendingDrawRuns
    /\ DelayedDrawFromUnplayed
    /\ [][SwipeStep => ~(card' = NoCard /\ ~hasCompleted' /\ timers' = <<>>)]_vars

-----------------------------------------------------------------------------
(* Properties of the index-based variant (SpecIndex) *)

\* The indices of filteredCards that are not in usedIndices
UnusedIndices ==
    {i \in 0..Len(filteredCards) : i < Len(filteredCards) /\ ~Includes(usedIndices, i)}

\* C31: usedIndices holds pairwise distinct indices of filteredCards; the
\* do/while of pickCard is entered only while some index of filteredCards is
\* unused; the random choice being fair, every draw leaves the loop.
C31_IndexDrawTerminates ==
    /\ [](/\ \A p, q \in 1..Len(usedIndices) :
                p # q => usedIndices[p] # usedIndices[q]
          /\ \A p \in 1..Len(usedIndices) : usedIndices[p] < Len(filteredCards)
          /\ sampling => UnusedIndices # {})
    /\ sampling ~> ~sampling

C31_Witness ==
    /\ sampling
    /\ index # <<>>
    /\ Includes(usedIndices, index[1])
    /\ Len(usedIndices) = 1
    /\ Len(filteredCards) = 2
    /\ selectedCategories # <<>>

====
